---- MODULE Spec2Model ----
(***************************************************************************)
(* Invite-link admission control of es_gobot (bot.py): link issuance with  *)
(* cooldown, join validation in protect_chat and eviction by ban + unban.  *)
(*                                                                         *)
(* Handlers are coroutines: a handler is suspended only at an await (a     *)
(* platform call or a sleep).  Each action below is the code one handler   *)
(* runs between two suspension points, or one statement against the        *)
(* database.  The variable multi says how handlers are scheduled: FALSE is *)
(* the single event loop of app.run_polling(), where the synchronous code  *)
(* between two awaits cannot be interleaved; TRUE is several workers       *)
(* sharing the one PostgreSQL store, where every database statement is a   *)
(* step of its own.                                                        *)
(***************************************************************************)
EXTENDS Integers, Sequences, FiniteSets, TLC

\* ------------------------------------------------------------ CONFIG
LINK_EXPIRE == 15
LINK_COOLDOWN == 1800
LINK_GRACE == 10
LINK_LOCK_SECONDS == 3
ADMIN_ID == 1
\* range(3) of safe_send
SEND_ATTEMPTS == 3

\* ------------------------------------------------------------ bounds
\* Handler invocations (updates delivered to the bot) in one behaviour.
MaxHandlers == 3
\* Telegram users; user 1 is the admin.
Users == {1, 2}
\* The instants the clock is read at (it never goes back).
Times == {0, 24, 25, 26, 1800}
\* new_chat_member.status values of a chat_member update
Statuses == {"member", "restricted", "left"}
\* what one attempt of a platform call can do
Outcomes == {"ok", "TimedOut", "Forbidden"}

VARIABLES
    now,            \* time.time(), in seconds
    multi,          \* handlers run in several workers sharing the store
    settings,       \* table settings: key -> value
    active_links,   \* table active_links: user_id -> [invite_link, expire]
    last_requests,  \* table last_requests: user_id -> timestamp
    link_locks,     \* table link_locks: user_id -> timestamp
    invites,        \* invite links the platform created: token i -> [user, expire_date]
    member,         \* platform: the user is in the guarded chat
    banned,         \* platform: the user is banned from the guarded chat
    handlers        \* the handler invocations, in order of arrival

vars == <<now, multi, settings, active_links, last_requests, link_locks,
          invites, member, banned, handlers>>

\* ------------------------------------------------------------ DATABASE
\* an empty table
EmptyTable == [k \in {} |-> 0]

\* cur.fetchone(): <<row>> or <<>> for None
fetchone(table, key) == IF key \in DOMAIN table THEN <<table[key]>> ELSE <<>>

\* Variant: INSERT ... ON CONFLICT DO NOTHING, an existing row stays.
upsert_do_nothing(table, key, row) ==
    [k \in DOMAIN table \cup {key} |->
        IF k \in DOMAIN table THEN table[k] ELSE row]

\* INSERT ... ON CONFLICT (key) DO UPDATE
upsert(table, key, row) ==
    [k \in DOMAIN table \cup {key} |-> IF k = key THEN row ELSE table[k]]

\* DELETE FROM table WHERE key
\* Variant: DELETE without the WHERE clause.
delete_all(table, key) == EmptyTable

delete(table, key) == [k \in DOMAIN table \ {key} |-> table[k]]

\* Variant: a missing setting reads as an empty value instead of None.
get_setting_default(key) ==
    IF key \in DOMAIN settings THEN <<settings[key]>> ELSE <<"">>

get_setting(key) == fetchone(settings, key)

set_setting(key, value) == upsert(settings, key, value)

is_admin(user_id) == user_id = ADMIN_ID

\* ------------------------------------------------------------ handlers
NewHandler(kind, user) ==
    [kind |-> kind, user |-> user, pc |-> "start", now |-> 0, link |-> 0,
     attempts |-> 0, outcome |-> "-", result |-> "-",
     ban |-> "-", unban |-> "-"]

HandlerIds == 1..Len(handlers)

\* Handler h may take a step: on the single event loop no other handler is in
\* the middle of synchronous code (protect_chat between its SELECT and its
\* DELETE, which no await separates).
CanRun(h) ==
    multi \/ \A g \in HandlerIds : g # h => handlers[g].pc # "delete"

Set(h, rec) == handlers' = [handlers EXCEPT ![h] = rec]

\* The handler returns: its locals are gone; the record keeps the link it
\* compared or created, how its last platform call ended, what it did and, of
\* an accepted join, when it decided.
Return(rec, result) ==
    [rec EXCEPT !.pc = "done", !.result = result, !.attempts = 0,
                !.now = IF result = "accepted" THEN rec.now ELSE 0]

\* ------------------------------------------------------------ UTILS
\* Variant: Forbidden is not caught apart and the value of the call is used.
safe_send_forbidden(attempt, outcome) ==
    IF outcome \in {"ok", "Forbidden"} THEN "return"
    ELSE IF attempt + 1 < SEND_ATTEMPTS THEN "retry"
    ELSE "None"

\* Variant: the loop runs once more than range(3).
safe_send_one_more(attempt, outcome) ==
    IF outcome = "ok" THEN "return"
    ELSE IF outcome = "Forbidden" THEN "None"
    ELSE IF attempt < SEND_ATTEMPTS THEN "retry"
    ELSE "None"

\* One pass of the loop of safe_send, the attempt-th (from 0), whose call ends
\* with outcome: "return" its value, "None" (return None) or "retry".
safe_send(attempt, outcome) ==
    IF outcome = "ok" THEN "return"
    ELSE IF outcome = "Forbidden" THEN "None"
    ELSE IF attempt + 1 < SEND_ATTEMPTS THEN "retry"
    ELSE "None"

\* ------------------------------------------------------------ environment
Tick(t) ==
    /\ t > now
    /\ now' = t
    /\ UNCHANGED <<multi, settings, active_links, last_requests, link_locks,
                   invites, member, banned, handlers>>

\* Variant: the status filter is missing, every update is handled.
Present_any(status) == status \in Statuses

\* The status filter of protect_chat: the update reports a user now present.
Present(status) == status \in {"member", "restricted"}

\* The platform reports that user's status in the guarded chat became status,
\* through invite link tok (0: no invite link, None), and calls protect_chat
\* with the chat_member update.  For a status that is filtered out the handler
\* returns at once, before it reads anything: it leaves no invocation behind.
\* Past the filter the handler does not look at the status again.
ChatMemberUpdate(user, status, tok) ==
    /\ IF status = "left"
       THEN member[user] /\ tok = 0
       ELSE ~member[user] /\ ~banned[user] /\ tok \in 0..Len(invites)
    /\ member' = [member EXCEPT ![user] = (status # "left")]
    /\ IF Present(status)
       THEN /\ Len(handlers) < MaxHandlers
            /\ handlers' = Append(handlers,
                    [NewHandler("join", user) EXCEPT !.link = tok])
       ELSE UNCHANGED handlers
    /\ UNCHANGED <<now, multi, settings, active_links, last_requests,
                   link_locks, invites, banned>>

\* ------------------------------------------------------------ ADMIN
\* /setchat <id> in a private chat: anyone but the admin is ignored.
setchat(user_id, arg) ==
    /\ \A g \in HandlerIds : handlers[g].pc # "delete" \/ multi
    /\ is_admin(user_id)
    /\ settings' = set_setting("private_chat_id", arg)
    /\ UNCHANGED <<now, multi, active_links, last_requests, link_locks,
                   invites, member, banned, handlers>>

\* ------------------------------------------------------------ /link
\* Variant: the cooldown is not checked.
LinkCheck_no_cooldown(user, t) ==
    LET chat == get_setting("private_chat_id")
        lock == fetchone(link_locks, user)
    IN  IF chat = <<>> THEN "NotConfigured"
        ELSE IF lock # <<>> /\ t - lock[1] < LINK_LOCK_SECONDS THEN "Debounced"
        ELSE "pass"

\* Variant: the debounce lock is not checked.
LinkCheck_no_debounce(user, t) ==
    LET chat == get_setting("private_chat_id")
        last == fetchone(last_requests, user)
    IN  IF chat = <<>> THEN "NotConfigured"
        ELSE IF last # <<>> /\ t - last[1] < LINK_COOLDOWN THEN "RateLimited"
        ELSE "pass"

\* The checks of RequestLink(user_id, now), in the order of the design: the
\* guarded chat is configured, the cooldown, the debounce lock.
LinkCheck(user, t) ==
    LET chat == get_setting("private_chat_id")
        last == fetchone(last_requests, user)
        lock == fetchone(link_locks, user)
    IN  IF chat = <<>> THEN "NotConfigured"
        ELSE IF last # <<>> /\ t - last[1] < LINK_COOLDOWN THEN "RateLimited"
        ELSE IF lock # <<>> /\ t - lock[1] < LINK_LOCK_SECONDS THEN "Debounced"
        ELSE "pass"

\* /link arrives for user: the checks, up to the await of the invite creation.
link(user) ==
    /\ Len(handlers) < MaxHandlers
    /\ \A g \in HandlerIds : handlers[g].pc # "delete" \/ multi
    /\ LET check == LinkCheck(user, now)
           h == [NewHandler("link", user) EXCEPT !.now = now]
       IN  IF check = "pass"
           THEN /\ link_locks' = upsert(link_locks, user, now)
                /\ handlers' = Append(handlers, [h EXCEPT !.pc = "create"])
           ELSE /\ UNCHANGED link_locks
                /\ handlers' = Append(handlers,
                        Return(h, check))
    /\ UNCHANGED <<now, multi, settings, active_links, last_requests,
                   invites, member, banned>>

\* The record written for an invite created by a request made at time t.
Credential(tok, t) == [invite_link |-> tok, expire |-> t + LINK_EXPIRE]

\* One attempt of safe_send(create_chat_invite_link, ...) and, when it returns
\* the invite, the two upserts.
link_create(h, outcome) ==
    /\ h \in HandlerIds
    /\ handlers[h].kind = "link" /\ handlers[h].pc = "create"
    /\ CanRun(h)
    /\ LET me == handlers[h]
           r == safe_send(me.attempts, outcome)
           tok == Len(invites) + 1
           tried == [me EXCEPT !.attempts = me.attempts + 1,
                               !.outcome = outcome]
       IN  /\ invites' = IF outcome = "ok"
                THEN Append(invites, [user |-> me.user,
                                      expire_date |-> me.now + LINK_EXPIRE])
                ELSE invites
           /\ CASE r = "retry" ->
                  /\ Set(h, tried)
                  /\ UNCHANGED <<active_links, last_requests>>
             [] r = "None" ->
                  /\ Set(h, Return(tried, IF outcome = "Forbidden"
                                            THEN "Forbidden" ELSE "Exhausted"))
                  /\ UNCHANGED <<active_links, last_requests>>
             [] r = "return" ->
                  /\ last_requests' = upsert(last_requests, me.user, me.now)
                  /\ active_links' = upsert(active_links, me.user,
                                            Credential(tok, me.now))
                  /\ Set(h, Return([tried EXCEPT !.link = tok], "ok"))
    /\ UNCHANGED <<now, multi, settings, link_locks, member, banned>>

\* ------------------------------------------------------------ ANTI-SLIV
\* Variant: the expiry is not tested.
Refused_no_expiry(row, invite_link, t) ==
    \/ row = <<>>
    \/ invite_link # row[1].invite_link

\* Variant: the expiry is tested without the grace.
Refused_no_grace(row, invite_link, t) ==
    \/ row = <<>>
    \/ invite_link # row[1].invite_link
    \/ t > row[1].expire

\* Variant: the link of the event is not compared.
Refused_any_link(row, invite_link, t) ==
    \/ row = <<>>
    \/ t > row[1].expire + LINK_GRACE

\* The condition of the if of protect_chat: the join is refused.
Refused(row, invite_link, t) ==
    \/ row = <<>>
    \/ invite_link # row[1].invite_link
    \/ t > row[1].expire + LINK_GRACE

\* protect_chat up to the if: the status filter, the SELECT and the decision.
protect_chat(h) ==
    /\ h \in HandlerIds
    /\ handlers[h].kind = "join" /\ handlers[h].pc = "start"
    /\ CanRun(h)
    /\ LET me == handlers[h]
           row == fetchone(active_links, me.user)
       IN  IF Refused(row, me.link, now)
           THEN Set(h, [me EXCEPT !.pc = "ban", !.result = "rejected",
                                  !.now = now])
           ELSE Set(h, [me EXCEPT !.pc = "delete", !.result = "accepted",
                                  !.now = now])
    /\ UNCHANGED <<now, multi, settings, active_links, last_requests,
                   link_locks, invites, member, banned>>

\* Variant: the handler stops after the ban, the unban call is missing.
protect_chat_ban_only(h, ok) ==
    /\ h \in HandlerIds
    /\ handlers[h].kind = "join" /\ handlers[h].pc = "ban"
    /\ CanRun(h)
    /\ LET me == handlers[h]
       IN  IF ok
           THEN /\ member' = [member EXCEPT ![me.user] = FALSE]
                /\ banned' = [banned EXCEPT ![me.user] = TRUE]
                /\ Set(h, Return([me EXCEPT !.ban = "ok"], "rejected"))
           ELSE /\ UNCHANGED <<member, banned>>
                /\ Set(h, Return([me EXCEPT !.ban = "fail"], "rejected"))
    /\ UNCHANGED <<now, multi, settings, active_links, last_requests,
                   link_locks, invites>>

\* Variant: the reject path clears the refused user's row before the ban.
protect_chat_ban_cleanup(h, ok) ==
    /\ h \in HandlerIds
    /\ handlers[h].kind = "join" /\ handlers[h].pc = "ban"
    /\ CanRun(h)
    /\ active_links' = delete(active_links, handlers[h].user)
    /\ LET me == handlers[h]
       IN  IF ok
           THEN /\ member' = [member EXCEPT ![me.user] = FALSE]
                /\ banned' = [banned EXCEPT ![me.user] = TRUE]
                /\ Set(h, [me EXCEPT !.pc = "unban", !.ban = "ok"])
           ELSE /\ UNCHANGED <<member, banned>>
                /\ Set(h, Return([me EXCEPT !.ban = "fail"], "rejected"))
    /\ UNCHANGED <<now, multi, settings, last_requests, link_locks, invites>>

\* Variant: ban and unban sit in separate try blocks, the unban is called
\* after a failed ban too.
protect_chat_ban_then_unban(h, ok) ==
    /\ h \in HandlerIds
    /\ handlers[h].kind = "join" /\ handlers[h].pc = "ban"
    /\ CanRun(h)
    /\ LET me == handlers[h]
       IN  IF ok
           THEN /\ member' = [member EXCEPT ![me.user] = FALSE]
                /\ banned' = [banned EXCEPT ![me.user] = TRUE]
                /\ Set(h, [me EXCEPT !.pc = "unban", !.ban = "ok"])
           ELSE /\ UNCHANGED <<member, banned>>
                /\ Set(h, [me EXCEPT !.pc = "unban", !.ban = "fail"])
    /\ UNCHANGED <<now, multi, settings, active_links, last_requests,
                   link_locks, invites>>

\* await context.bot.ban_chat_member(...): it bans and removes the user, or
\* raises, and the bare except ends the handler.
protect_chat_ban(h, ok) ==
    /\ h \in HandlerIds
    /\ handlers[h].kind = "join" /\ handlers[h].pc = "ban"
    /\ CanRun(h)
    /\ LET me == handlers[h]
       IN  IF ok
           THEN /\ member' = [member EXCEPT ![me.user] = FALSE]
                /\ banned' = [banned EXCEPT ![me.user] = TRUE]
                /\ Set(h, [me EXCEPT !.pc = "unban", !.ban = "ok"])
           ELSE /\ UNCHANGED <<member, banned>>
                /\ Set(h, Return([me EXCEPT !.ban = "fail"], "rejected"))
    /\ UNCHANGED <<now, multi, settings, active_links, last_requests,
                   link_locks, invites>>

\* Variant: the return that ends the reject branch is missing, the handler
\* goes on to the DELETE.
protect_chat_unban_no_return(h, ok) ==
    /\ h \in HandlerIds
    /\ handlers[h].kind = "join" /\ handlers[h].pc = "unban"
    /\ CanRun(h)
    /\ LET me == handlers[h]
       IN  IF ok
           THEN /\ banned' = [banned EXCEPT ![me.user] = FALSE]
                /\ Set(h, [me EXCEPT !.unban = "ok", !.pc = "delete"])
           ELSE /\ UNCHANGED banned
                /\ Set(h, [me EXCEPT !.unban = "fail", !.pc = "delete"])
    /\ UNCHANGED <<now, multi, settings, active_links, last_requests,
                   link_locks, invites, member>>

\* await context.bot.unban_chat_member(...): it lifts the ban, or raises.
protect_chat_unban(h, ok) ==
    /\ h \in HandlerIds
    /\ handlers[h].kind = "join" /\ handlers[h].pc = "unban"
    /\ CanRun(h)
    /\ LET me == handlers[h]
       IN  IF ok
           THEN /\ banned' = [banned EXCEPT ![me.user] = FALSE]
                /\ Set(h, Return([me EXCEPT !.unban = "ok"], "rejected"))
           ELSE /\ UNCHANGED banned
                /\ Set(h, Return([me EXCEPT !.unban = "fail"], "rejected"))
    /\ UNCHANGED <<now, multi, settings, active_links, last_requests,
                   link_locks, invites, member>>

\* Variant: the DELETE is never committed.
protect_chat_delete_uncommitted(h) ==
    /\ h \in HandlerIds
    /\ handlers[h].kind = "join" /\ handlers[h].pc = "delete"
    /\ CanRun(h)
    /\ Set(h, Return(handlers[h], "accepted"))
    /\ UNCHANGED <<now, multi, settings, active_links, last_requests,
                   link_locks, invites, member, banned>>

\* The DELETE of the accept path.
protect_chat_delete(h) ==
    /\ h \in HandlerIds
    /\ handlers[h].kind = "join" /\ handlers[h].pc = "delete"
    /\ CanRun(h)
    /\ active_links' = delete(active_links, handlers[h].user)
    /\ Set(h, Return(handlers[h], "accepted"))
    /\ UNCHANGED <<now, multi, settings, last_requests, link_locks,
                   invites, member, banned>>

\* ------------------------------------------------------------ MAIN
InitStores ==
    /\ now = 0
    /\ settings = EmptyTable
    /\ active_links = EmptyTable
    /\ last_requests = EmptyTable
    /\ link_locks = EmptyTable
    /\ invites = <<>>
    /\ member = [u \in Users |-> FALSE]
    /\ banned = [u \in Users |-> FALSE]
    /\ handlers = <<>>

\* app.run_polling(): one process, one event loop
Init == InitStores /\ multi = FALSE

\* several workers on the same database
InitWorkers == InitStores /\ multi = TRUE

Next ==
    \/ \E t \in Times : Tick(t)
    \/ \E u \in Users, s \in Statuses, tok \in 0..MaxHandlers :
            ChatMemberUpdate(u, s, tok)
    \/ \E u \in Users : setchat(u, "-100")
    \/ \E u \in Users : link(u)
    \/ \E h \in 1..MaxHandlers, o \in Outcomes : link_create(h, o)
    \/ \E h \in 1..MaxHandlers : protect_chat(h)
    \/ \E h \in 1..MaxHandlers, ok \in BOOLEAN : protect_chat_ban(h, ok)
    \/ \E h \in 1..MaxHandlers, ok \in BOOLEAN : protect_chat_unban(h, ok)
    \/ \E h \in 1..MaxHandlers : protect_chat_delete(h)

Spec == Init /\ [][Next]_vars

SpecWorkers == InitWorkers /\ [][Next]_vars

\* ------------------------------------------------------------ properties
Joins(u) == {h \in HandlerIds : handlers[h].kind = "join" /\ handlers[h].user = u}

\* The handler of u's latest entering event, 0 when u never entered.
LastJoin(u) ==
    IF Joins(u) = {} THEN 0
    ELSE CHOOSE h \in Joins(u) : \A g \in Joins(u) : g <= h

\* The bot created link tok for user u.
IssuedTo(tok, u) == tok \in 1..Len(invites) /\ invites[tok].user = u

\* Handler h accepted a join through a link issued to its user, in time.
Admitted(h) ==
    /\ handlers[h].result = "accepted"
    /\ IssuedTo(handlers[h].link, handlers[h].user)
    /\ handlers[h].now <= invites[handlers[h].link].expire_date + LINK_GRACE

\* This step is protect_chat deciding on the join event of handler h.
Decided(h) ==
    /\ handlers[h].kind = "join"
    /\ handlers[h].pc = "start"
    /\ handlers'[h].pc # "start"

\* The stored credential of h's user carries the link of h's join event.
MatchingRow(h) ==
    /\ handlers[h].user \in DOMAIN active_links
    /\ active_links[handlers[h].user].invite_link = handlers[h].link

Accepts(h) ==
    /\ handlers'[h].result = "accepted"
    /\ handlers'[h].pc = "delete"

\* ban attempted next, nothing deleted
Rejects(h) ==
    /\ handlers'[h].result = "rejected"
    /\ handlers'[h].pc = "ban"
    /\ active_links' = active_links

\* This step is /link arriving: a new link handler ran its checks.
Requested ==
    /\ Len(handlers') = Len(handlers) + 1
    /\ handlers'[Len(handlers')].kind = "link"

\* C1 (as stated): a user who is in the chat once the latest join event of
\* that user has been handled was accepted on a link issued to that user, no
\* later than its expire + LINK_GRACE, ban and unban failures included.
C1_OnlyAdmittedRemain ==
    \A u \in Users :
        member[u] =>
            /\ LastJoin(u) # 0
            /\ handlers[LastJoin(u)].pc = "done" => Admitted(LastJoin(u))

\* C1 (amended): a user who is in the chat once the latest join event of that
\* user has been handled was accepted on a link issued to that user, in time,
\* or was refused and the ban call of that event failed.
C1_OnlyAdmittedOrUnbannable ==
    \A u \in Users :
        member[u] =>
            /\ LastJoin(u) # 0
            /\ handlers[LastJoin(u)].pc = "done" =>
                  \/ Admitted(LastJoin(u))
                  \/ /\ handlers[LastJoin(u)].result = "rejected"
                     /\ handlers[LastJoin(u)].ban = "fail"

\* An admitted user stays while another, refused one has been removed.
C1_Witness ==
    \E u, v \in Users :
        /\ member[u] /\ LastJoin(u) # 0
        /\ handlers[LastJoin(u)].pc = "done" /\ Admitted(LastJoin(u))
        /\ ~member[v] /\ LastJoin(v) # 0
        /\ handlers[LastJoin(v)].pc = "done"
        /\ handlers[LastJoin(v)].ban = "ok"

\* C2: a join with the stored link decided at a time <= expire + LINK_GRACE of
\* the issued credential (expire = time of the request + LINK_EXPIRE) is
\* accepted and the DELETE removes the row; decided later it is refused: the
\* ban is attempted and the row stays.
C2_GraceWindow ==
    [][\A h \in HandlerIds :
          /\ (Decided(h) /\ MatchingRow(h)) =>
                /\ IssuedTo(handlers[h].link, handlers[h].user)
                /\ active_links[handlers[h].user].expire =
                        invites[handlers[h].link].expire_date
                /\ IF now <= invites[handlers[h].link].expire_date + LINK_GRACE
                   THEN Accepts(h) ELSE Rejects(h)
          /\ (handlers[h].pc = "delete" /\ handlers'[h].pc = "done") =>
                handlers[h].user \notin DOMAIN active_links'
      ]_vars

\* issued at 0 (expire 15): a join accepted at 25, the row gone
C2_Witness ==
    \E h \in HandlerIds :
        /\ handlers[h].pc = "done" /\ Admitted(h)
        /\ invites[handlers[h].link].expire_date = LINK_EXPIRE
        /\ handlers[h].now = LINK_EXPIRE + LINK_GRACE
        /\ handlers[h].user \notin DOMAIN active_links

\* C3: a join whose link differs from the stored one (no link at all and no
\* row at all included) is refused at any time: the ban is attempted.
C3_MismatchRefused ==
    [][\A h \in HandlerIds :
          (Decided(h) /\ ~MatchingRow(h)) => Rejects(h)]_vars

\* a join without a link refused inside the validity window of the stored row
C3_Witness ==
    \E h \in HandlerIds :
        /\ handlers[h].kind = "join" /\ handlers[h].pc = "ban"
        /\ handlers[h].link = 0
        /\ handlers[h].user \in DOMAIN active_links
        /\ handlers[h].now <= active_links[handlers[h].user].expire

\* C4: of the joins of one user through one link at most one is accepted.
C4_OneTimeUse ==
    \A u \in Users : \A tok \in 0..Len(invites) :
        Cardinality({h \in Joins(u) : /\ handlers[h].link = tok
                                      /\ handlers[h].result = "accepted"}) <= 1

\* accepted once, the same link refused the second time
C4_Witness ==
    \E g, h \in HandlerIds :
        /\ g < h
        /\ handlers[g].kind = "join" /\ handlers[h].kind = "join"
        /\ handlers[g].user = handlers[h].user
        /\ handlers[g].link = handlers[h].link
        /\ handlers[g].pc = "done" /\ Admitted(g)
        /\ handlers[h].result = "rejected"

\* The link created last for user u (0: none).
LatestIssued(u) ==
    LET S == {i \in 1..Len(invites) : invites[i].user = u}
    IN  IF S = {} THEN 0 ELSE CHOOSE i \in S : \A j \in S : j <= i

\* C5: a join is accepted only on the link issued last to its user; a join on
\* an older link is refused once the newer issuance has completed.
C5_OnlyLatestLink ==
    [][\A h \in HandlerIds :
          Decided(h) =>
             IF handlers[h].link = LatestIssued(handlers[h].user)
             THEN TRUE ELSE Rejects(h)]_vars

\* the older link refused although its own expire + LINK_GRACE has not passed
C5_Witness ==
    \E h \in HandlerIds :
        /\ handlers[h].kind = "join" /\ handlers[h].pc = "ban"
        /\ IssuedTo(handlers[h].link, handlers[h].user)
        /\ handlers[h].link < LatestIssued(handlers[h].user)
        /\ handlers[h].now <= invites[handlers[h].link].expire_date + LINK_GRACE

C7_NotConfigured ==
    [][(Requested /\ "private_chat_id" \notin DOMAIN settings) =>
            /\ handlers'[Len(handlers')].result = "NotConfigured"
            /\ handlers'[Len(handlers')].pc = "done"
            /\ UNCHANGED <<active_links, last_requests, link_locks, invites>>
      ]_vars

C7_Witness ==
    \E h \in HandlerIds :
        /\ handlers[h].kind = "link" /\ handlers[h].result = "NotConfigured"
        /\ "private_chat_id" \notin DOMAIN settings
        /\ active_links = EmptyTable /\ last_requests = EmptyTable

\* Link handler h took this step (its arrival included).
LinkStep(h) ==
    /\ handlers'[h].kind = "link"
    /\ h \in HandlerIds => handlers'[h] # handlers[h]

\* C8: a step of a /link handler that does not end in success leaves
\* active_links and last_requests as they are; the step that ends in success
\* is the one in which the platform created the invite, and it upserts both
\* rows of the user.
C8_WritesOnlyOnSuccess ==
    [][\A h \in 1..Len(handlers') :
          LinkStep(h) =>
             IF handlers'[h].result = "ok"
             THEN /\ Len(invites') = Len(invites) + 1
                  /\ handlers'[h].link = Len(invites')
                  /\ last_requests' =
                        upsert(last_requests, handlers[h].user, handlers[h].now)
                  /\ active_links' =
                        upsert(active_links, handlers[h].user,
                               [invite_link |-> Len(invites'),
                                expire |-> handlers[h].now + LINK_EXPIRE])
             ELSE UNCHANGED <<active_links, last_requests>>
      ]_vars

\* a request that gave up on transient failures next to an older credential
C8_Witness ==
    \E h \in HandlerIds :
        /\ handlers[h].kind = "link" /\ handlers[h].result = "Exhausted"
        /\ handlers[h].user \in DOMAIN active_links
        /\ handlers[h].user \in DOMAIN last_requests

\* C9: the DELETE of the accept path removes the credential the join matched,
\* never another one written since the SELECT.
C9_DeletesWhatItMatched ==
    [][\A h \in HandlerIds :
          (/\ handlers[h].kind = "join"
           /\ handlers[h].pc = "delete" /\ handlers'[h].pc = "done"
           /\ handlers[h].user \in DOMAIN active_links) =>
                active_links[handlers[h].user].invite_link = handlers[h].link
      ]_vars

\* An eviction of u is between its ban and its unban.
Evicting(u) == \E h \in Joins(u) : handlers[h].pc = "unban"

\* C10 (as stated): once the eviction is over the user is not banned, whatever
\* call failed.
C10_NeverLeftBanned ==
    \A u \in Users : banned[u] => Evicting(u)

\* C10 (amended): once the eviction is over the user is not banned, unless
\* the ban call succeeded and the unban call of that eviction failed.
C10_BannedOnlyByFailedUnban ==
    \A u \in Users :
        banned[u] =>
            \/ Evicting(u)
            \/ \E h \in Joins(u) : /\ handlers[h].pc = "done"
                                   /\ handlers[h].ban = "ok"
                                   /\ handlers[h].unban = "fail"

\* evicted, unbanned, and later admitted on a link of their own
C10_Witness ==
    \E g, h \in HandlerIds :
        /\ g < h
        /\ handlers[g].kind = "join" /\ handlers[h].kind = "join"
        /\ handlers[g].user = handlers[h].user
        /\ handlers[g].pc = "done"
        /\ handlers[g].ban = "ok" /\ handlers[g].unban = "ok"
        /\ handlers[h].pc = "done" /\ Admitted(h)
        /\ member[handlers[h].user] /\ ~banned[handlers[h].user]

\* This step is one attempt of the wrapped call of handler h.
Attempted(h) ==
    /\ handlers[h].kind = "link"
    /\ handlers[h].pc = "create"
    /\ handlers'[h] # handlers[h]

\* C11: safe_send makes at most SEND_ATTEMPTS attempts; a success ends it with
\* the result of the call, Forbidden ends it at once with the failure value, a
\* transient error leads to one more attempt while attempts remain and to the
\* failure value after the last one.
C11_BoundedRetry ==
    /\ [](\A h \in HandlerIds :
            handlers[h].pc = "create" =>
                /\ handlers[h].attempts < SEND_ATTEMPTS
                /\ handlers[h].attempts > 0 => handlers[h].outcome = "TimedOut")
    /\ [][\A h \in HandlerIds :
            Attempted(h) =>
               CASE handlers'[h].outcome = "ok" ->
                        /\ handlers'[h].pc = "done"
                        /\ handlers'[h].result = "ok"
                        /\ handlers'[h].link = Len(invites')
                 [] handlers'[h].outcome = "Forbidden" ->
                        /\ handlers'[h].pc = "done"
                        /\ handlers'[h].result = "Forbidden"
                 [] handlers'[h].outcome = "TimedOut" ->
                        IF handlers[h].attempts + 1 < SEND_ATTEMPTS
                        THEN /\ handlers'[h].pc = "create"
                             /\ handlers'[h].attempts = handlers[h].attempts + 1
                        ELSE /\ handlers'[h].pc = "done"
                             /\ handlers'[h].result = "Exhausted"
       ]_vars

\* the third attempt has failed like the two before it: the call is given up
C11_Witness ==
    \E h \in HandlerIds :
        /\ handlers[h].kind = "link" /\ handlers[h].pc = "done"
        /\ handlers[h].result = "Exhausted"
        /\ handlers[h].outcome = "TimedOut"

\* This step is taken by join handler h on its reject path: the decision to
\* refuse, the ban call or the unban call.
RejectStep(h) ==
    /\ handlers[h].kind = "join"
    /\ handlers'[h] # handlers[h]
    /\ handlers'[h].result = "rejected"

\* C12: refusing a join changes no stored state: every step of the reject
\* path, whether the ban and the unban succeed or fail, leaves the credential
\* store, the rate-limit store, the locks and the settings as they were, so a
\* stale or mismatching row stays in place.
C12_RejectWritesNothing ==
    [][\A h \in HandlerIds :
            RejectStep(h) =>
                /\ active_links' = active_links
                /\ last_requests' = last_requests
                /\ link_locks' = link_locks
                /\ settings' = settings
      ]_vars

\* a join on an expired link was refused, the unban failed, and the stale row
\* is still stored
C12_Witness ==
    \E h \in HandlerIds :
        /\ handlers[h].kind = "join" /\ handlers[h].pc = "done"
        /\ handlers[h].result = "rejected"
        /\ handlers[h].ban = "ok" /\ handlers[h].unban = "fail"
        /\ MatchingRow(h)
        /\ now > active_links[handlers[h].user].expire + LINK_GRACE

\* This step is the platform reporting that member u left the chat.
Left(u) == member[u] /\ ~member'[u] /\ banned'[u] = banned[u]

\* C13: a membership event whose new status is neither member nor restricted
\* is ignored: no handler runs for it, no credential is read or deleted, no
\* ban or unban is issued, and a credential the user holds stays as it is.
C13_OtherStatusIgnored ==
    [][\A u \in Users :
            Left(u) =>
                /\ handlers' = handlers
                /\ active_links' = active_links
                /\ last_requests' = last_requests
                /\ link_locks' = link_locks
                /\ banned' = banned
      ]_vars

\* a user who entered has left again without a ban, before the join was
\* handled, and the link of that join is still stored and in time
C13_Witness ==
    \E h \in HandlerIds :
        /\ handlers[h].kind = "join" /\ handlers[h].pc = "start"
        /\ ~member[handlers[h].user] /\ ~banned[handlers[h].user]
        /\ \A g \in Joins(handlers[h].user) : g = h
        /\ MatchingRow(h)
        /\ now <= active_links[handlers[h].user].expire + LINK_GRACE

\* The invite links with which a join of u would be accepted now.
Usable(u) ==
    {tok \in 0..Len(invites) : ~Refused(fetchone(active_links, u), tok, now)}

\* C14: the credential store holds at most one credential per user, so at
\* most one invite link per user can pass the join validation at any instant,
\* and a successful request replaces the row of its user: the row is the one
\* of the link created last for that user.
C14_OneCredentialPerUser ==
    \A u \in Users :
        /\ Cardinality(Usable(u)) <= 1
        /\ u \in DOMAIN active_links =>
               active_links[u].invite_link = LatestIssued(u)

\* a second link replaced the first one of the same user: only the second
\* one passes
C14_Witness ==
    \E u \in Users :
        /\ u \in DOMAIN active_links
        /\ \E tok \in 1..Len(invites) :
               IssuedTo(tok, u) /\ tok < active_links[u].invite_link
        /\ Usable(u) = {active_links[u].invite_link}

\* The decision protect_chat takes on the join event of handler h when it
\* runs at time t against the present store.
Decision(h, t) ==
    Refused(fetchone(active_links, handlers[h].user), handlers[h].link, t)

\* C15 (as stated): the decision on a join event depends on the store and on
\* the fields of the event only, not on when the handler runs: while the event
\* waits and the store stays the same, a later handling decides as an earlier
\* one would have.
C15_SameDecisionHoweverLate ==
    [][\A h \in HandlerIds :
            /\ handlers[h].kind = "join" /\ handlers[h].pc = "start"
            /\ handlers'[h] = handlers[h]
            /\ active_links' = active_links
            => Decision(h, now') = Decision(h, now)
      ]_vars

\* The user of the /link request of this step.
Requester == handlers'[Len(handlers')].user

\* A request of user u got past the checks less than LINK_LOCK_SECONDS ago.
RecentRequest(u) ==
    /\ u \in DOMAIN link_locks
    /\ now - link_locks[u] < LINK_LOCK_SECONDS

\* The cooldown of user u is running.
CoolingDown(u) ==
    /\ u \in DOMAIN last_requests
    /\ now - last_requests[u] < LINK_COOLDOWN

\* The request of this step ended at once with result r: no invite link is
\* created and nothing is written.
RefusedWith(r) ==
    /\ handlers'[Len(handlers')].pc = "done"
    /\ handlers'[Len(handlers')].result = r
    /\ invites' = invites
    /\ active_links' = active_links
    /\ last_requests' = last_requests
    /\ link_locks' = link_locks

ActsFor(u) ==
    \E h \in 1..Len(handlers') :
        /\ handlers'[h].user = u
        /\ h > Len(handlers) \/ handlers'[h] # handlers[h]

\* C17: users are isolated from each other: a step of a request or of a join
\* handling of user u leaves the credential, the rate mark and the lock of
\* every other user v as they were, and so the answer a request of v would
\* get and the decision on a join of v through any link are the same after
\* the step as before it.
C17_PerUserIsolation ==
    [][\A u \in Users, v \in Users :
            ActsFor(u) /\ v # u =>
                /\ fetchone(active_links', v) = fetchone(active_links, v)
                /\ fetchone(last_requests', v) = fetchone(last_requests, v)
                /\ fetchone(link_locks', v) = fetchone(link_locks, v)
                /\ LinkCheck(v, now)' = LinkCheck(v, now)
                /\ \A tok \in 0..Len(invites) :
                       Refused(fetchone(active_links, v), tok, now)'
                           = Refused(fetchone(active_links, v), tok, now)
      ]_vars

\* one user's join was accepted and that user's row deleted while the other
\* user's credential and mark are still stored
C17_Witness ==
    \E g \in HandlerIds, v \in Users :
        /\ handlers[g].kind = "join" /\ handlers[g].pc = "done"
        /\ handlers[g].result = "accepted"
        /\ handlers[g].user # v
        /\ handlers[g].user \notin DOMAIN active_links
        /\ v \in DOMAIN active_links /\ v \in DOMAIN last_requests

\* Handler h has finished on the accept path: no ban or unban was called.
AcceptOutcome(h) ==
    /\ handlers[h].result = "accepted"
    /\ handlers[h].ban = "-" /\ handlers[h].unban = "-"

\* Handler h has finished on the reject path: the ban was attempted.
RejectOutcome(h) ==
    /\ handlers[h].result = "rejected"
    /\ handlers[h].ban \in {"ok", "fail"}

\* C18: every handled join event of a present user ends in exactly one of two
\* ways: accepted, with the credential of the user deleted by its last step
\* and no ban or unban called, or refused, with the ban attempted and the
\* credential store never written by the handler.
C18_AcceptOrReject ==
    /\ [](\A h \in HandlerIds :
            handlers[h].kind = "join" /\ handlers[h].pc = "done" =>
                /\ AcceptOutcome(h) \/ RejectOutcome(h)
                /\ ~(AcceptOutcome(h) /\ RejectOutcome(h)))
    /\ [][\A h \in HandlerIds :
            handlers[h].kind = "join" /\ handlers'[h] # handlers[h] =>
                IF handlers'[h].result = "accepted" /\ handlers'[h].pc = "done"
                THEN /\ handlers[h].user \notin DOMAIN active_links'
                     /\ banned' = banned /\ member' = member
                ELSE active_links' = active_links
       ]_vars

\* both outcomes side by side: one event accepted and its row gone, another
\* one refused with its ban attempted and failed
C18_Witness ==
    \E g \in HandlerIds, h \in HandlerIds :
        /\ handlers[g].kind = "join" /\ handlers[g].pc = "done"
        /\ handlers[h].kind = "join" /\ handlers[h].pc = "done"
        /\ AcceptOutcome(g) /\ handlers[g].user \notin DOMAIN active_links
        /\ RejectOutcome(h) /\ handlers[h].ban = "fail"

\* C19: on the reject path the unban is called only after the ban returned
\* without error; after a failed ban no unban is attempted; each of the two is
\* called at most once per event: a call that was made is never made again.
C19_UnbanOnlyAfterBan ==
    /\ [](\A h \in HandlerIds :
            handlers[h].kind = "join" =>
                /\ handlers[h].pc = "ban" =>
                       handlers[h].ban = "-" /\ handlers[h].unban = "-"
                /\ handlers[h].pc = "unban" =>
                       handlers[h].ban = "ok" /\ handlers[h].unban = "-"
                /\ handlers[h].unban # "-" => handlers[h].ban = "ok"
                /\ handlers[h].ban = "fail" =>
                       handlers[h].pc = "done" /\ handlers[h].unban = "-")
    /\ [][\A h \in HandlerIds :
            /\ handlers[h].ban # "-" => handlers'[h].ban = handlers[h].ban
            /\ handlers[h].unban # "-" => handlers'[h] = handlers[h]
       ]_vars

\* the ban call of a refused join failed: the handler ended there, no unban
\* was tried and the user is still in the chat
C19_Witness ==
    \E h \in HandlerIds :
        /\ handlers[h].kind = "join" /\ handlers[h].pc = "done"
        /\ handlers[h].ban = "fail" /\ handlers[h].unban = "-"
        /\ member[handlers[h].user] /\ ~banned[handlers[h].user]

\* The stored credential of user u, if any, can no longer be accepted.
PastGrace(u) ==
    u \in DOMAIN active_links => now > active_links[u].expire + LINK_GRACE

====
